---- MODULE Spec2Model ----
\* A model of the documentation site of the JSON Object & Schema Utility plugin:
\* the page metadata records, the site configuration and the page-rendering
\* functions (HomePage, DefiningSchemaPage, SchemaCachePage, SerializationPage).
\* The state is what a JavaScript runtime holds once the modules are loaded: the
\* exported metadata objects and the exported site configuration (mutable objects,
\* which no function of the repository writes), the site configuration the layout
\* context hands to useSite(), and what each page function last rendered.
EXTENDS Integers, Sequences, FiniteSets, TLC

VARIABLES metadata, siteConfig, site, dom, renders

vars == <<metadata, siteConfig, site, dom, renders>>

\* ---------------------------------------------------------------------------
\* Strings. A JavaScript string is modelled by a TLA+ string; its characters are
\* read with SubSeq.
\* ---------------------------------------------------------------------------

CharAt(s, i) == SubSeq(s, i, i)

StartsWith(s, p) == Len(s) >= Len(p) /\ SubSeq(s, 1, Len(p)) = p

\* The least index >= i at which character c occurs in s, or Len(s) + 1.
RECURSIVE IndexFrom(_, _, _)
IndexFrom(s, c, i) ==
  IF i > Len(s) THEN Len(s) + 1
  ELSE IF CharAt(s, i) = c THEN i
  ELSE IndexFrom(s, c, i + 1)

Scheme == "https://"

\* The host of an absolute https URL: what lies between the scheme and the next
\* "/" (or the end); the empty string when the URL is not an absolute https URL.
HostOf(url) ==
  IF ~StartsWith(url, Scheme) THEN ""
  ELSE SubSeq(url, Len(Scheme) + 1, IndexFrom(url, "/", Len(Scheme) + 1) - 1)

IsAbsoluteHttps(url) == StartsWith(url, Scheme) /\ Len(HostOf(url)) > 0

Upper == <<"A", "B", "C", "D", "E", "F", "G", "H", "I", "J", "K", "L", "M",
           "N", "O", "P", "Q", "R", "S", "T", "U", "V", "W", "X", "Y", "Z">>

Lower == <<"a", "b", "c", "d", "e", "f", "g", "h", "i", "j", "k", "l", "m",
           "n", "o", "p", "q", "r", "s", "t", "u", "v", "w", "x", "y", "z">>

IsUpper(c) == \E i \in DOMAIN Upper : Upper[i] = c

ToLower(c) == IF IsUpper(c) THEN Lower[CHOOSE i \in DOMAIN Upper : Upper[i] = c] ELSE c

\* A variant of the naming rule that lower-cases the name and inserts no
\* separator between its words.
RECURSIVE ToSnakeNoSeparator(_, _)
ToSnakeNoSeparator(s, i) ==
  IF i > Len(s) THEN ""
  ELSE ToLower(CharAt(s, i)) \o ToSnakeNoSeparator(s, i + 1)

\* The naming rule the Serialization page documents: "Property names are
\* automatically converted from PascalCase (CharacterName) to snake_case
\* (character_name) in JSON". Every upper-case letter is lower-cased, and every
\* one but the first is preceded by "_". ToSnakeFrom converts s from index i on.
RECURSIVE ToSnakeFrom(_, _)
ToSnakeFrom(s, i) ==
  IF i > Len(s) THEN ""
  ELSE LET c == CharAt(s, i)
       IN (IF IsUpper(c) /\ i > 1 THEN "_" ELSE "") \o ToLower(c) \o ToSnakeFrom(s, i + 1)

ToSnake(s) == ToSnakeFrom(s, 1)

\* The elements of a sequence, as a set.
Range(f) == {f[i] : i \in DOMAIN f}

\* ---------------------------------------------------------------------------
\* The exported metadata records. A JavaScript object is a record whose domain
\* is the set of properties the literal defines; "satisfies" is checked at
\* compile time only and adds nothing at run time.
\* ---------------------------------------------------------------------------

\* src/community/issues.tsx, lines 3-10.
ReportBugMetadata ==
  [kind |-> "external",
   title |-> "Report an Bug",
   href |-> "https://github.com/osmalpkoras/docs-json-schema-utility-plugin/issues/new?template=bug_report.md",
   description |-> "Report an issue with the JSON Object & Schema Utility plugin",
   icon |-> "Bug",
   order |-> 2]

\* src/community/issues.tsx, lines 15-20 (the home page; the literal has no icon).
HomeMetadata ==
  [kind |-> "content",
   title |-> "JSON Object & Schema Utility Plugin",
   description |-> "Transform UObject classes into JSON Schema-validated data with automatic serialization",
   order |-> 1]

\* The Feature Request record pointing at the issue form of another repository.
FeatureRequestMetadataOtherRepo ==
  [kind |-> "external",
   title |-> "Feature Request",
   href |-> "https://github.com/osmalpkoras/json-schema-utility-plugin/issues/new?template=feature_request.md",
   description |-> "Request changes or new features for the JSON Object & Schema Utility plugin",
   icon |-> "Sparkles",
   order |-> 3]

\* src/unnamed/part_003, lines 3-10.
FeatureRequestMetadata ==
  [kind |-> "external",
   title |-> "Feature Request",
   href |-> "https://github.com/osmalpkoras/docs-json-schema-utility-plugin/issues/new?template=feature_request.md",
   description |-> "Request changes or new features for the JSON Object & Schema Utility plugin",
   icon |-> "Sparkles",
   order |-> 3]

\* The Discord record with a scheme-less href.
DiscordMetadataRelative ==
  [kind |-> "external",
   title |-> "Discord",
   href |-> "discord.com/invite/VR6YMu8wb5",
   description |-> "Community resources for the JSON Object & Schema Utility plugin",
   icon |-> "MessageCircle",
   order |-> 1]

\* src/unnamed/part_003, lines 13-20.
DiscordMetadata ==
  [kind |-> "external",
   title |-> "Discord",
   href |-> "https://discord.com/invite/VR6YMu8wb5",
   description |-> "Community resources for the JSON Object & Schema Utility plugin",
   icon |-> "MessageCircle",
   order |-> 1]

\* The Community group with an order among those of the content pages.
CommunityMetadataOrder4 ==
  [kind |-> "group",
   title |-> "Community",
   description |-> "Community resources for the JSON Object & Schema Utility plugin",
   order |-> 4]

\* src/unnamed/part_004, lines 3-8.
CommunityMetadata ==
  [kind |-> "group",
   title |-> "Community",
   description |-> "Community resources for the JSON Object & Schema Utility plugin",
   order |-> 400]

\* src/defining-schemas.tsx, lines 3-9.
DefiningSchemaMetadata ==
  [kind |-> "content",
   title |-> "Defining Schemas",
   description |-> "Learn how to define JSON schemas using UPROPERTY metadata",
   order |-> 3,
   icon |-> "Zap"]

\* src/unnamed/part_001, lines 3-9 (a second revision of the same page).
DefiningSchemaAltMetadata ==
  [kind |-> "content",
   title |-> "Defining Schemas",
   description |-> "Learn how to define JSON schemas using UPROPERTY metadata",
   order |-> 3,
   icon |-> "Zap"]

\* The Schema Cache record without its description.
SchemaCacheMetadataNoDescription ==
  [kind |-> "content",
   title |-> "Schema Cache",
   order |-> 4,
   icon |-> "Database"]

\* The Schema Cache record with the order of the Defining Schemas page.
SchemaCacheMetadataOrder3 ==
  [kind |-> "content",
   title |-> "Schema Cache",
   description |-> "Understanding and managing the JSON Schema cache",
   order |-> 3,
   icon |-> "Database"]

\* src/unnamed/part_002, lines 3-9.
SchemaCacheMetadata ==
  [kind |-> "content",
   title |-> "Schema Cache",
   description |-> "Understanding and managing the JSON Schema cache",
   order |-> 4,
   icon |-> "Database"]

\* src/serialization.tsx, lines 3-9.
SerializationMetadata ==
  [kind |-> "content",
   title |-> "JSON Serialization",
   description |-> "Convert between objects and JSON",
   order |-> 5,
   icon |-> "ArrowLeftRight"]

\* src/unnamed/part_000, lines 3-9 (a second revision of the same page).
SerializationAltMetadata ==
  [kind |-> "content",
   title |-> "JSON Serialization",
   description |-> "Convert between objects and JSON",
   order |-> 5,
   icon |-> "ArrowLeftRight"]

\* The modules that export a page-rendering function, and the other modules
\* that export a metadata record. A module is named by the file it comes from.
HomeId == "home"
DefiningSchemaId == "defining-schemas"
DefiningSchemaAltId == "defining-schemas-alt"
SchemaCacheId == "schema-cache"
SerializationId == "serialization"
SerializationAltId == "serialization-alt"
ReportBugId == "community/issues"
FeatureRequestId == "community/feature-request"
DiscordId == "community/discord"
CommunityId == "community"

Pages == {HomeId, DefiningSchemaId, DefiningSchemaAltId, SchemaCacheId,
          SerializationId, SerializationAltId}

CommunityLinks == {ReportBugId, FeatureRequestId, DiscordId}

Modules == Pages \cup CommunityLinks \cup {CommunityId}

\* The metadata export of every module, as loaded.
LoadedMetadata ==
  [m \in Modules |->
     CASE m = HomeId -> HomeMetadata
       [] m = DefiningSchemaId -> DefiningSchemaMetadata
       [] m = DefiningSchemaAltId -> DefiningSchemaAltMetadata
       [] m = SchemaCacheId -> SchemaCacheMetadata
       [] m = SerializationId -> SerializationMetadata
       [] m = SerializationAltId -> SerializationAltMetadata
       [] m = ReportBugId -> ReportBugMetadata
       [] m = FeatureRequestId -> FeatureRequestMetadata
       [] m = DiscordId -> DiscordMetadata
       [] m = CommunityId -> CommunityMetadata]

\* ---------------------------------------------------------------------------
\* The site configuration, src/community/issues.tsx lines 153-188. The url and
\* the thumbnail are computed outside these files (getSiteUrl, an image import)
\* and no page reads them; they are left out.
\* ---------------------------------------------------------------------------

SiteConfigDefault ==
  [name |-> "Json Object & Schema Utility Plugin",
   description |-> "Utility plugin for JSON objects and schemas. Provides tools for validation, transformation, and schema generation.",
   links |-> [github |-> "https://github.com/osmalpkoras/docs-json-schema-utility-plugin",
              documentation |-> "/json-schema"],
   github |-> [baseUrl |-> "https://github.com/osmalpkoras/docs-json-schema-utility-plugin",
               branch |-> "main",
               owner |-> "oakisnotree",
               repo |-> "docs-json-schema-utility-plugin"],
   headerLinks |->
     [github |-> [label |-> "GitHub",
                  href |-> "https://github.com/osmalpkoras/docs-json-schema-utility-plugin",
                  icon |-> "Github",
                  ariaLabel |-> "View on GitHub"],
      discord |-> [label |-> "Discord",
                   href |-> "https://discord.com/invite/VR6YMu8wb5",
                   icon |-> "MessageCircle",
                   ariaLabel |-> "Join Discord"],
      fab |-> [label |-> "FAB",
               href |-> "https://www.fab.com/listings/37f4c8e1-0f72-48ad-9659-2d9801149e16",
               icon |-> "ShoppingCart",
               ariaLabel |-> "View on FAB - Unreal Engine Marketplace"]]]

\* The site configurations the layout context may hand to useSite(): the
\* repository's own, one that differs from it in a field no page reads, one
\* whose header links lead elsewhere, and one that lacks the "fab" header link.
SiteRenamed == [SiteConfigDefault EXCEPT !.name = "JSON Schema Utility"]

SiteOtherLinks ==
  [SiteConfigDefault EXCEPT
     !.headerLinks.github.href = "https://github.com/osmalpkoras/docs-json-schema-utility-plugin/tree/main",
     !.headerLinks.discord.href = "https://discord.com/invite/another",
     !.headerLinks.fab.href = "https://www.fab.com/listings/another"]

SiteNoFab ==
  [SiteConfigDefault EXCEPT
     !.headerLinks = [k \in {"github", "discord"} |-> SiteConfigDefault.headerLinks[k]]]

SiteInputs == {SiteConfigDefault, SiteRenamed, SiteOtherLinks, SiteNoFab}

\* ---------------------------------------------------------------------------
\* The content of the pages.
\* ---------------------------------------------------------------------------

\* src/defining-schemas.tsx: the code examples, in page order. Per example: the title, the JsonSchema_*
\* metadata keys of its UPROPERTY declarations, the declared properties, the members
\* it dereferences, the keys of the JSON it shows (serialized objects and quoted
\* schema fragments alike) or passes to Get/Set...Field, the
\* UENUMs and the IJsonSchema classes it declares.
\* Source lines: Excluding Properties from Schema 37-52; Marking Properties as Optional 61-78; Runtime Optional Property Overrides 87-112; String Properties with Patterns and Formats 121-145; Numeric Properties with Constraints 158-182; Array Properties with Item Constraints 191-208; Enumeration Properties 217-242; Nested Objects with IJsonSchema 251-281; Comprehensive Schema Definition Example 294-337; Defining Property Descriptions 412-416
DefiningSchemaExamples ==
  << [title |-> "Excluding Properties from Schema",
      meta |-> <<"JsonSchema_ExcludeFromSchema">>,
      props |-> <<[name |-> "CharacterName", type |-> "FString"], [name |-> "InternalCounter", type |-> "int32"]>>,
      members |-> <<>>,
      json |-> <<>>,
      enums |-> <<>>,
      classes |-> <<"ACharacter">>],
     [title |-> "Marking Properties as Optional",
      meta |-> <<"JsonSchema_Optional", "JsonSchema_Optional", "JsonSchema_Optional">>,
      props |-> <<[name |-> "Biography", type |-> "FString"], [name |-> "SpecialEquipment", type |-> "UEquipment*"], [name |-> "SecondaryClass", type |-> "ECharacterClass"]>>,
      members |-> <<>>,
      json |-> <<>>,
      enums |-> <<>>,
      classes |-> <<>>],
     [title |-> "Runtime Optional Property Overrides",
      meta |-> <<>>,
      props |-> <<[name |-> "CharacterName", type |-> "FString"], [name |-> "Biography", type |-> "FString"], [name |-> "SpecialEquipment", type |-> "UEquipment*"]>>,
      members |-> <<>>,
      json |-> <<>>,
      enums |-> <<>>,
      classes |-> <<"AGameCharacter">>],
     [title |-> "String Properties with Patterns and Formats",
      meta |-> <<"JsonSchema_Pattern", "JsonSchema_Format", "JsonSchema_Format", "JsonSchema_Format">>,
      props |-> <<[name |-> "Username", type |-> "FString"], [name |-> "UniqueID", type |-> "FString"], [name |-> "ContactEmail", type |-> "FString"], [name |-> "WebsiteUrl", type |-> "FString"]>>,
      members |-> <<>>,
      json |-> <<>>,
      enums |-> <<>>,
      classes |-> <<>>],
     [title |-> "Numeric Properties with Constraints",
      meta |-> <<"JsonSchema_Minimum", "JsonSchema_Maximum", "JsonSchema_Minimum", "JsonSchema_ExclusiveMinimum", "JsonSchema_MultipleOf", "JsonSchema_Maximum", "JsonSchema_ExclusiveMaximum">>,
      props |-> <<[name |-> "Health", type |-> "int32"], [name |-> "DamageMultiplier", type |-> "float"], [name |-> "AttackSpeed", type |-> "float"], [name |-> "DamageReduction", type |-> "float"]>>,
      members |-> <<>>,
      json |-> <<>>,
      enums |-> <<>>,
      classes |-> <<>>],
     [title |-> "Array Properties with Item Constraints",
      meta |-> <<"JsonSchema_MinItems", "JsonSchema_MaxItems", "JsonSchema_MinItems">>,
      props |-> <<[name |-> "Abilities", type |-> "TArray<FString>"], [name |-> "ColorValues", type |-> "TArray<int32>"], [name |-> "InventoryItems", type |-> "TArray<FString>"]>>,
      members |-> <<>>,
      json |-> <<>>,
      enums |-> <<>>,
      classes |-> <<>>],
     [title |-> "Enumeration Properties",
      meta |-> <<"JsonSchema_Optional">>,
      props |-> <<[name |-> "CharacterClass", type |-> "ECharacterClass"], [name |-> "SecondaryClass", type |-> "ECharacterClass"]>>,
      members |-> <<>>,
      json |-> <<"character_class", "secondary_class", "enum">>,
      enums |-> <<"ECharacterClass">>,
      classes |-> <<"ACharacter">>],
     [title |-> "Nested Objects with IJsonSchema",
      meta |-> <<"JsonSchema_Minimum", "JsonSchema_Maximum", "JsonSchema_Optional", "JsonSchema_Optional">>,
      props |-> <<[name |-> "EquipmentName", type |-> "FString"], [name |-> "DefenseBonus", type |-> "int32"], [name |-> "Armor", type |-> "UEquipment*"], [name |-> "Weapon", type |-> "UEquipment*"]>>,
      members |-> <<>>,
      json |-> <<>>,
      enums |-> <<>>,
      classes |-> <<"UEquipment", "ACharacter">>],
     [title |-> "Comprehensive Schema Definition Example",
      meta |-> <<"JsonSchema_Pattern", "JsonSchema_Minimum", "JsonSchema_Maximum", "JsonSchema_MinItems", "JsonSchema_MaxItems", "JsonSchema_Optional", "JsonSchema_Optional">>,
      props |-> <<[name |-> "CharacterName", type |-> "FString"], [name |-> "Level", type |-> "int32"], [name |-> "SpecialAbilities", type |-> "TArray<FString>"], [name |-> "Rarity", type |-> "ECharacterRarity"], [name |-> "Description", type |-> "FString"]>>,
      members |-> <<>>,
      json |-> <<>>,
      enums |-> <<"ECharacterRarity">>,
      classes |-> <<"AGameCharacter">>],
     [title |-> "Defining Property Descriptions",
      meta |-> <<>>,
      props |-> <<[name |-> "Health", type |-> "int32"], [name |-> "MaxMana", type |-> "int32"], [name |-> "AttackSpeed", type |-> "float"]>>,
      members |-> <<>>,
      json |-> <<>>,
      enums |-> <<>>,
      classes |-> <<>>] >>

\* src/defining-schemas.tsx: the rows of the Metadata Reference table (lines 354-403).
DefiningSchemaTable ==
  << [key |-> "JsonSchema_Pattern", valueType |-> "Regex string", equivalent |-> "pattern property"],
     [key |-> "JsonSchema_Format", valueType |-> "Format string", equivalent |-> "format property (uuid, email, uri, date, etc.)"],
     [key |-> "JsonSchema_Minimum", valueType |-> "Number", equivalent |-> "minimum property (inclusive bound)"],
     [key |-> "JsonSchema_Maximum", valueType |-> "Number", equivalent |-> "maximum property (inclusive bound)"],
     [key |-> "JsonSchema_ExclusiveMinimum", valueType |-> "Flag", equivalent |-> "exclusiveMinimum property"],
     [key |-> "JsonSchema_ExclusiveMaximum", valueType |-> "Flag", equivalent |-> "exclusiveMaximum property"],
     [key |-> "JsonSchema_MultipleOf", valueType |-> "Number", equivalent |-> "multipleOf property"],
     [key |-> "JsonSchema_MinItems", valueType |-> "Number", equivalent |-> "minItems property"],
     [key |-> "JsonSchema_MaxItems", valueType |-> "Number", equivalent |-> "maxItems property"],
     [key |-> "JsonSchema_Optional", valueType |-> "Flag", equivalent |-> "Required/optional field"] >>

\* src/defining-schemas.tsx: the titles of the page's callouts (lines 148, 284, 422).
DefiningSchemaCallouts ==
  <<"Format Support", "Nested Object Requirements", "Best Practice for Documentation">>

\* src/unnamed/part_001: the code examples, in page order. Per example: the title, the JsonSchema_*
\* metadata keys of its UPROPERTY declarations, the declared properties, the members
\* it dereferences, the keys of the JSON it shows (serialized objects and quoted
\* schema fragments alike) or passes to Get/Set...Field, the
\* UENUMs and the IJsonSchema classes it declares.
\* Source lines: Excluding Properties from Schema 33-51; Defining Property Descriptions 56-75; Marking Properties as Optional 85-105; Runtime Optional Property Overrides 110-138; String Properties with Patterns and Formats 143-170; Numeric Properties with Constraints 179-206; Array Properties with Item Constraints 211-231; Enumeration Properties 236-264; Nested Objects with IJsonSchema 269-302; Comprehensive Schema Definition Example 316-362
DefiningSchemaAltExamples ==
  << [title |-> "Excluding Properties from Schema",
      meta |-> <<"JsonSchema_ExcludeFromSchema">>,
      props |-> <<[name |-> "CharacterName", type |-> "FString"], [name |-> "InternalCounter", type |-> "int32"]>>,
      members |-> <<>>,
      json |-> <<>>,
      enums |-> <<>>,
      classes |-> <<"ACharacter">>],
     [title |-> "Defining Property Descriptions",
      meta |-> <<>>,
      props |-> <<[name |-> "Health", type |-> "int32"], [name |-> "MaxMana", type |-> "int32"], [name |-> "AttackSpeed", type |-> "float"]>>,
      members |-> <<>>,
      json |-> <<>>,
      enums |-> <<>>,
      classes |-> <<>>],
     [title |-> "Marking Properties as Optional",
      meta |-> <<"JsonSchema_Optional", "JsonSchema_Optional", "JsonSchema_Optional">>,
      props |-> <<[name |-> "Biography", type |-> "FString"], [name |-> "SpecialEquipment", type |-> "UEquipment*"], [name |-> "SecondaryClass", type |-> "ECharacterClass"]>>,
      members |-> <<>>,
      json |-> <<>>,
      enums |-> <<>>,
      classes |-> <<>>],
     [title |-> "Runtime Optional Property Overrides",
      meta |-> <<>>,
      props |-> <<[name |-> "CharacterName", type |-> "FString"], [name |-> "Biography", type |-> "FString"], [name |-> "SpecialEquipment", type |-> "UEquipment*"]>>,
      members |-> <<>>,
      json |-> <<>>,
      enums |-> <<>>,
      classes |-> <<"AGameCharacter">>],
     [title |-> "String Properties with Patterns and Formats",
      meta |-> <<"JsonSchema_Pattern", "JsonSchema_Format", "JsonSchema_Format", "JsonSchema_Format">>,
      props |-> <<[name |-> "Username", type |-> "FString"], [name |-> "UniqueID", type |-> "FString"], [name |-> "ContactEmail", type |-> "FString"], [name |-> "WebsiteUrl", type |-> "FString"]>>,
      members |-> <<>>,
      json |-> <<>>,
      enums |-> <<>>,
      classes |-> <<>>],
     [title |-> "Numeric Properties with Constraints",
      meta |-> <<"JsonSchema_Minimum", "JsonSchema_Maximum", "JsonSchema_Minimum", "JsonSchema_ExclusiveMinimum", "JsonSchema_MultipleOf", "JsonSchema_Maximum", "JsonSchema_ExclusiveMaximum">>,
      props |-> <<[name |-> "Health", type |-> "int32"], [name |-> "DamageMultiplier", type |-> "float"], [name |-> "AttackSpeed", type |-> "float"], [name |-> "DamageReduction", type |-> "float"]>>,
      members |-> <<>>,
      json |-> <<>>,
      enums |-> <<>>,
      classes |-> <<>>],
     [title |-> "Array Properties with Item Constraints",
      meta |-> <<"JsonSchema_MinItems", "JsonSchema_MaxItems", "JsonSchema_MinItems">>,
      props |-> <<[name |-> "Abilities", type |-> "TArray<FString>"], [name |-> "ColorValues", type |-> "TArray<int32>"], [name |-> "InventoryItems", type |-> "TArray<FString>"]>>,
      members |-> <<>>,
      json |-> <<>>,
      enums |-> <<>>,
      classes |-> <<>>],
     [title |-> "Enumeration Properties",
      meta |-> <<"JsonSchema_Optional">>,
      props |-> <<[name |-> "CharacterClass", type |-> "ECharacterClass"], [name |-> "SecondaryClass", type |-> "ECharacterClass"]>>,
      members |-> <<>>,
      json |-> <<"character_class", "secondary_class", "enum">>,
      enums |-> <<"ECharacterClass">>,
      classes |-> <<"ACharacter">>],
     [title |-> "Nested Objects with IJsonSchema",
      meta |-> <<"JsonSchema_Minimum", "JsonSchema_Maximum", "JsonSchema_Optional", "JsonSchema_Optional">>,
      props |-> <<[name |-> "EquipmentName", type |-> "FString"], [name |-> "DefenseBonus", type |-> "int32"], [name |-> "Armor", type |-> "UEquipment*"], [name |-> "Weapon", type |-> "UEquipment*"]>>,
      members |-> <<>>,
      json |-> <<>>,
      enums |-> <<>>,
      classes |-> <<"UEquipment", "ACharacter">>],
     [title |-> "Comprehensive Schema Definition Example",
      meta |-> <<"JsonSchema_Pattern", "JsonSchema_Minimum", "JsonSchema_Maximum", "JsonSchema_MinItems", "JsonSchema_MaxItems", "JsonSchema_Optional", "JsonSchema_Optional">>,
      props |-> <<[name |-> "CharacterName", type |-> "FString"], [name |-> "Level", type |-> "int32"], [name |-> "SpecialAbilities", type |-> "TArray<FString>"], [name |-> "Rarity", type |-> "ECharacterRarity"], [name |-> "Description", type |-> "FString"]>>,
      members |-> <<>>,
      json |-> <<>>,
      enums |-> <<"ECharacterRarity">>,
      classes |-> <<"AGameCharacter">>] >>

\* src/unnamed/part_001: the rows of the Metadata Reference table (lines 380-429).
DefiningSchemaAltTable ==
  << [key |-> "JsonSchema_Pattern", valueType |-> "Regex string", equivalent |-> "pattern property"],
     [key |-> "JsonSchema_Format", valueType |-> "Format string", equivalent |-> "format property (uuid, email, uri, date, etc.)"],
     [key |-> "JsonSchema_Minimum", valueType |-> "Number", equivalent |-> "minimum property (inclusive bound)"],
     [key |-> "JsonSchema_Maximum", valueType |-> "Number", equivalent |-> "maximum property (inclusive bound)"],
     [key |-> "JsonSchema_ExclusiveMinimum", valueType |-> "Flag", equivalent |-> "exclusiveMinimum property"],
     [key |-> "JsonSchema_ExclusiveMaximum", valueType |-> "Flag", equivalent |-> "exclusiveMaximum property"],
     [key |-> "JsonSchema_MultipleOf", valueType |-> "Number", equivalent |-> "multipleOf property"],
     [key |-> "JsonSchema_MinItems", valueType |-> "Number", equivalent |-> "minItems property"],
     [key |-> "JsonSchema_MaxItems", valueType |-> "Number", equivalent |-> "maxItems property"],
     [key |-> "JsonSchema_Optional", valueType |-> "Flag", equivalent |-> "Required/optional field"] >>

\* src/unnamed/part_001: the titles of the page's callouts (lines 79, 174, 306).
DefiningSchemaAltCallouts ==
  <<"Best Practice for Documentation", "Format Support", "Nested Object Requirements">>

\* src/serialization.tsx: the code examples, in page order. Per example: the title, the JsonSchema_*
\* metadata keys of its UPROPERTY declarations, the declared properties, the members
\* it dereferences, the keys of the JSON it shows (serialized objects and quoted
\* schema fragments alike) or passes to Get/Set...Field, the
\* UENUMs and the IJsonSchema classes it declares.
\* Source lines: Serialize to JSON Object 37-55; Serialize to JSON String 66-76; Deserialize from JSON Object 98-120; Deserialize from JSON String 131-153; Round-Trip Serialization 164-181; Error Handling 198-225; Array Serialization 238-260; Nested Object Serialization 271-306; Blueprint Serialization Workflow 317-329
SerializationExamples ==
  << [title |-> "Serialize to JSON Object",
      meta |-> <<>>,
      props |-> <<>>,
      members |-> <<"CharacterName", "Level", "Health">>,
      json |-> <<"character_name", "level", "level">>,
      enums |-> <<>>,
      classes |-> <<>>],
     [title |-> "Serialize to JSON String",
      meta |-> <<>>,
      props |-> <<>>,
      members |-> <<"CharacterName", "Level">>,
      json |-> <<"character_name", "level", "health">>,
      enums |-> <<>>,
      classes |-> <<>>],
     [title |-> "Deserialize from JSON Object",
      meta |-> <<>>,
      props |-> <<>>,
      members |-> <<"CharacterName", "Level">>,
      json |-> <<"character_name", "level", "health">>,
      enums |-> <<>>,
      classes |-> <<>>],
     [title |-> "Deserialize from JSON String",
      meta |-> <<>>,
      props |-> <<>>,
      members |-> <<"CharacterName">>,
      json |-> <<"character_name", "level", "health">>,
      enums |-> <<>>,
      classes |-> <<>>],
     [title |-> "Round-Trip Serialization",
      meta |-> <<>>,
      props |-> <<>>,
      members |-> <<"CharacterName", "Level", "Health">>,
      json |-> <<>>,
      enums |-> <<>>,
      classes |-> <<>>],
     [title |-> "Error Handling",
      meta |-> <<>>,
      props |-> <<>>,
      members |-> <<"CharacterName">>,
      json |-> <<>>,
      enums |-> <<>>,
      classes |-> <<>>],
     [title |-> "Array Serialization",
      meta |-> <<>>,
      props |-> <<[name |-> "MemberNames", type |-> "TArray<FString>"]>>,
      members |-> <<"MemberNames">>,
      json |-> <<"member_names">>,
      enums |-> <<>>,
      classes |-> <<"AParty">>],
     [title |-> "Nested Object Serialization",
      meta |-> <<>>,
      props |-> <<[name |-> "Name", type |-> "FString"], [name |-> "Damage", type |-> "int32"], [name |-> "Name", type |-> "FString"], [name |-> "EquippedWeapon", type |-> "UWeapon*"]>>,
      members |-> <<"Name", "EquippedWeapon", "Damage">>,
      json |-> <<"name", "equipped_weapon", "name", "damage">>,
      enums |-> <<>>,
      classes |-> <<"UWeapon", "AWarrior">>],
     [title |-> "Blueprint Serialization Workflow",
      meta |-> <<>>,
      props |-> <<>>,
      members |-> <<>>,
      json |-> <<>>,
      enums |-> <<>>,
      classes |-> <<>>] >>

\* src/serialization.tsx: the titles of the page's callouts (lines 80, 185, 333, 347).
SerializationCallouts ==
  <<"Schema-Generated Property Names", "Data Integrity", "Instance Lifecycle", "Use Cases">>

\* src/unnamed/part_000: the code examples, in page order. Per example: the title, the JsonSchema_*
\* metadata keys of its UPROPERTY declarations, the declared properties, the members
\* it dereferences, the keys of the JSON it shows (serialized objects and quoted
\* schema fragments alike) or passes to Get/Set...Field, the
\* UENUMs and the IJsonSchema classes it declares.
\* Source lines: Serialize to JSON Object 32-53; Serialize to JSON String 58-71; Deserialize from JSON Object 85-110; Deserialize from JSON String 114-139; Error Handling 146-176; Array Serialization 183-208; Nested Object Serialization 214-252
SerializationAltExamples ==
  << [title |-> "Serialize to JSON Object",
      meta |-> <<>>,
      props |-> <<>>,
      members |-> <<"CharacterName", "Level", "Health">>,
      json |-> <<"character_name", "level", "level">>,
      enums |-> <<>>,
      classes |-> <<>>],
     [title |-> "Serialize to JSON String",
      meta |-> <<>>,
      props |-> <<>>,
      members |-> <<"CharacterName", "Level">>,
      json |-> <<"character_name", "level", "health">>,
      enums |-> <<>>,
      classes |-> <<>>],
     [title |-> "Deserialize from JSON Object",
      meta |-> <<>>,
      props |-> <<>>,
      members |-> <<"CharacterName", "Level">>,
      json |-> <<"character_name", "level", "health">>,
      enums |-> <<>>,
      classes |-> <<>>],
     [title |-> "Deserialize from JSON String",
      meta |-> <<>>,
      props |-> <<>>,
      members |-> <<"CharacterName">>,
      json |-> <<"character_name", "level", "health">>,
      enums |-> <<>>,
      classes |-> <<>>],
     [title |-> "Error Handling",
      meta |-> <<>>,
      props |-> <<>>,
      members |-> <<"CharacterName">>,
      json |-> <<>>,
      enums |-> <<>>,
      classes |-> <<>>],
     [title |-> "Array Serialization",
      meta |-> <<>>,
      props |-> <<[name |-> "MemberNames", type |-> "TArray<FString>"]>>,
      members |-> <<"MemberNames">>,
      json |-> <<"member_names">>,
      enums |-> <<>>,
      classes |-> <<"AParty">>],
     [title |-> "Nested Object Serialization",
      meta |-> <<>>,
      props |-> <<[name |-> "Name", type |-> "FString"], [name |-> "Damage", type |-> "int32"], [name |-> "Name", type |-> "FString"], [name |-> "EquippedWeapon", type |-> "UWeapon*"]>>,
      members |-> <<"Name", "EquippedWeapon", "Damage">>,
      json |-> <<"name", "equipped_weapon", "name", "damage">>,
      enums |-> <<>>,
      classes |-> <<"UWeapon", "AWarrior">>] >>

\* src/unnamed/part_000: the titles of the page's callouts (lines 75).
SerializationAltCallouts ==
  <<"Schema-Generated Property Names">>

\* src/unnamed/part_002: the code examples, in page order. Per example: the title, the JsonSchema_*
\* metadata keys of its UPROPERTY declarations, the declared properties, the members
\* it dereferences, the keys of the JSON it shows (serialized objects and quoted
\* schema fragments alike) or passes to Get/Set...Field, the
\* UENUMs and the IJsonSchema classes it declares.
\* Source lines: Accessing the Schema Cache 108-120; Serialization with Cached Schema 140-149; Deserialization with Cached Schema 165-179; Accessing Schema at Runtime 269-287
SchemaCacheExamples ==
  << [title |-> "Accessing the Schema Cache",
      meta |-> <<>>,
      props |-> <<>>,
      members |-> <<>>,
      json |-> <<>>,
      enums |-> <<>>,
      classes |-> <<>>],
     [title |-> "Serialization with Cached Schema",
      meta |-> <<>>,
      props |-> <<>>,
      members |-> <<"CharacterName", "Level">>,
      json |-> <<"character_name", "level">>,
      enums |-> <<>>,
      classes |-> <<>>],
     [title |-> "Deserialization with Cached Schema",
      meta |-> <<>>,
      props |-> <<>>,
      members |-> <<"CharacterName", "Level">>,
      json |-> <<"character_name", "level">>,
      enums |-> <<>>,
      classes |-> <<>>],
     [title |-> "Accessing Schema at Runtime",
      meta |-> <<>>,
      props |-> <<>>,
      members |-> <<>>,
      json |-> <<>>,
      enums |-> <<>>,
      classes |-> <<>>] >>

\* src/unnamed/part_002: the titles of the page's callouts (lines 96, 202, 230).
SchemaCacheCallouts ==
  <<"Automatic Generation", "When to Manually Rebuild", "Cache is Compile-Time Generated">>

\* ---------------------------------------------------------------------------
\* The page-rendering functions. What a page function returns is modelled by
\* the parts of its element tree the pages differ in: the heading, the outbound
\* buttons, the code examples, the reference table and the callouts.
\* ---------------------------------------------------------------------------

\* The header-link keys with the last one capitalised.
HomeLinkKeysMistyped == <<"fab", "github", "Discord">>

\* The header links HomePage dereferences, in button order (lines 52, 57, 62).
HomeLinkKeys == <<"fab", "github", "discord">>

HomeButtonLabels == <<"Buy on FAB", "View on GitHub", "Join Discord">>

HomeButtonVariants == <<"default", "outline", "outline">>

\* A HomePage that numbers its output by the pages already on screen.
HomePageCounting(s) ==
  IF \E i \in DOMAIN HomeLinkKeys : HomeLinkKeys[i] \notin DOMAIN s.headerLinks
  THEN [status |-> "TypeError"]
  ELSE [status |-> "ok",
        h1 |-> "JSON Object & Schema Utility Plugin",
        buttons |-> [i \in DOMAIN HomeLinkKeys |->
                       [label |-> HomeButtonLabels[i],
                        variant |-> HomeButtonVariants[i],
                        href |-> s.headerLinks[HomeLinkKeys[i]].href,
                        target |-> "_blank",
                        rel |-> "noopener noreferrer"]],
        examples |-> <<>>,
        table |-> <<>>,
        callouts |-> <<"Engine Support", ToString(Cardinality({p \in DOMAIN dom : dom[p].status # "none"}))>>]

\* A HomePage whose GitHub and Discord anchors open a new browsing context
\* without a rel attribute.
HomePageNoRel(s) ==
  IF \E i \in DOMAIN HomeLinkKeys : HomeLinkKeys[i] \notin DOMAIN s.headerLinks
  THEN [status |-> "TypeError"]
  ELSE [status |-> "ok",
        h1 |-> "JSON Object & Schema Utility Plugin",
        buttons |-> [i \in DOMAIN HomeLinkKeys |->
                       [label |-> HomeButtonLabels[i],
                        variant |-> HomeButtonVariants[i],
                        href |-> s.headerLinks[HomeLinkKeys[i]].href,
                        target |-> "_blank",
                        rel |-> IF HomeLinkKeys[i] = "fab" THEN "noopener noreferrer" ELSE ""]],
        examples |-> <<>>,
        table |-> <<>>,
        callouts |-> <<"Engine Support">>]

\* A HomePage that builds the GitHub button's URL from the owner and the
\* repository of the site configuration instead of reading the declared href.
HomePageBuildsUrl(s) ==
  IF \E i \in DOMAIN HomeLinkKeys : HomeLinkKeys[i] \notin DOMAIN s.headerLinks
  THEN [status |-> "TypeError"]
  ELSE [status |-> "ok",
        h1 |-> "JSON Object & Schema Utility Plugin",
        buttons |-> [i \in DOMAIN HomeLinkKeys |->
                       [label |-> HomeButtonLabels[i],
                        variant |-> HomeButtonVariants[i],
                        href |-> IF HomeLinkKeys[i] = "github"
                                 THEN "https://github.com/" \o s.github.owner \o "/" \o s.github.repo
                                 ELSE s.headerLinks[HomeLinkKeys[i]].href,
                        target |-> "_blank",
                        rel |-> "noopener noreferrer"]],
        examples |-> <<>>,
        table |-> <<>>,
        callouts |-> <<"Engine Support">>]

\* HomePage, src/community/issues.tsx lines 29-148, under the site configuration
\* s that useSite() returns. Reading .href of a header link the configuration
\* does not define throws a TypeError, and nothing is rendered.
HomePage(s) ==
  IF \E i \in DOMAIN HomeLinkKeys : HomeLinkKeys[i] \notin DOMAIN s.headerLinks
  THEN [status |-> "TypeError"]
  ELSE [status |-> "ok",
        h1 |-> "JSON Object & Schema Utility Plugin",
        buttons |-> [i \in DOMAIN HomeLinkKeys |->
                       [label |-> HomeButtonLabels[i],
                        variant |-> HomeButtonVariants[i],
                        href |-> s.headerLinks[HomeLinkKeys[i]].href,
                        target |-> "_blank",
                        rel |-> "noopener noreferrer"]],
        examples |-> <<>>,
        table |-> <<>>,
        callouts |-> <<"Engine Support">>]

\* A page that only composes static content: no heading of its own (PageHeader
\* renders it), no buttons.
StaticPage(examples, table, callouts) ==
  [status |-> "ok",
   h1 |-> "",
   buttons |-> <<>>,
   examples |-> examples,
   table |-> table,
   callouts |-> callouts]

\* DefiningSchemaPage, src/defining-schemas.tsx lines 14-434.
DefiningSchemaPage == StaticPage(DefiningSchemaExamples, DefiningSchemaTable, DefiningSchemaCallouts)

\* DefiningSchemaPage, src/unnamed/part_001 lines 21-438.
DefiningSchemaPageAlt ==
  StaticPage(DefiningSchemaAltExamples, DefiningSchemaAltTable, DefiningSchemaAltCallouts)

\* SchemaCachePage, src/unnamed/part_002 lines 14-295.
SchemaCachePage == StaticPage(SchemaCacheExamples, <<>>, SchemaCacheCallouts)

\* SerializationPage, src/serialization.tsx lines 14-358.
SerializationPage == StaticPage(SerializationExamples, <<>>, SerializationCallouts)

\* SerializationPage, src/unnamed/part_000 lines 14-263.
SerializationPageAlt == StaticPage(SerializationAltExamples, <<>>, SerializationAltCallouts)

\* ---------------------------------------------------------------------------
\* The state machine.
\* ---------------------------------------------------------------------------

NotRendered == [status |-> "none"]

Init ==
  /\ metadata = LoadedMetadata
  /\ siteConfig = SiteConfigDefault
  /\ site = SiteConfigDefault
  /\ dom = [p \in Pages |-> NotRendered]
  /\ renders = {}

\* The layout mounts a site: from now on useSite() returns c.
Mount(c) ==
  /\ c # site
  /\ site' = c
  /\ UNCHANGED <<metadata, siteConfig, dom, renders>>

\* The input of a page function that takes no argument and calls no hook.
NoInput == [name |-> "(none)"]

\* What a call of page function p leaves on screen: its output, with the input
\* it read.
Shown(p, input, out) ==
  [dom EXCEPT ![p] = [status |-> out.status, input |-> input, out |-> out]]

\* The history of renders, with the call of p added.
Recorded(p, input, out) == renders \cup {[page |-> p, input |-> input, out |-> out]}

\* A HomePage call that also rewrites a field of the exported configuration.
RenderHomePageWritesConfig ==
  /\ dom' = Shown(HomeId, site, HomePage(site))
  /\ renders' = Recorded(HomeId, site, HomePage(site))
  /\ siteConfig' = [siteConfig EXCEPT !.links.documentation = "/"]
  /\ UNCHANGED <<metadata, site>>

\* A call of HomePage: it reads the site configuration from useSite() (line 30)
\* and writes none of the exported objects.
RenderHomePage ==
  /\ dom' = Shown(HomeId, site, HomePage(site))
  /\ renders' = Recorded(HomeId, site, HomePage(site))
  /\ UNCHANGED <<metadata, siteConfig, site>>

RenderDefiningSchemaPage ==
  /\ dom' = Shown(DefiningSchemaId, NoInput, DefiningSchemaPage)
  /\ renders' = Recorded(DefiningSchemaId, NoInput, DefiningSchemaPage)
  /\ UNCHANGED <<metadata, siteConfig, site>>

RenderDefiningSchemaPageAlt ==
  /\ dom' = Shown(DefiningSchemaAltId, NoInput, DefiningSchemaPageAlt)
  /\ renders' = Recorded(DefiningSchemaAltId, NoInput, DefiningSchemaPageAlt)
  /\ UNCHANGED <<metadata, siteConfig, site>>

RenderSchemaCachePage ==
  /\ dom' = Shown(SchemaCacheId, NoInput, SchemaCachePage)
  /\ renders' = Recorded(SchemaCacheId, NoInput, SchemaCachePage)
  /\ UNCHANGED <<metadata, siteConfig, site>>

RenderSerializationPage ==
  /\ dom' = Shown(SerializationId, NoInput, SerializationPage)
  /\ renders' = Recorded(SerializationId, NoInput, SerializationPage)
  /\ UNCHANGED <<metadata, siteConfig, site>>

RenderSerializationPageAlt ==
  /\ dom' = Shown(SerializationAltId, NoInput, SerializationPageAlt)
  /\ renders' = Recorded(SerializationAltId, NoInput, SerializationPageAlt)
  /\ UNCHANGED <<metadata, siteConfig, site>>

Next ==
  \/ \E c \in SiteInputs : Mount(c)
  \/ RenderHomePage
  \/ RenderDefiningSchemaPage
  \/ RenderDefiningSchemaPageAlt
  \/ RenderSchemaCachePage
  \/ RenderSerializationPage
  \/ RenderSerializationPageAlt

Spec == Init /\ [][Next]_vars

\* ---------------------------------------------------------------------------
\* Properties of the metadata records.
\* ---------------------------------------------------------------------------

ContentModules == {m \in Modules : metadata[m].kind = "content"}

ExternalModules == {m \in Modules : metadata[m].kind = "external"}

Fields(m) == DOMAIN metadata[m]

SomePageRendered == \E p \in Pages : dom[p].status = "ok"

\* C1, as stated: every metadata record of kind 'content' (Home, Defining
\* Schemas, Schema Cache, JSON Serialization) defines all of kind, title,
\* description, order and icon; only href is optional.
C1_ContentDefinesAllFields ==
  \A m \in ContentModules :
    {"kind", "title", "description", "order", "icon"} \subseteq Fields(m)

\* C1, amended: every metadata record of kind 'content' defines kind, title,
\* description and order and no field besides these, icon and href; every
\* content record but the home page's defines icon, and the home page's does not;
\* no content record defines href.
C1_ContentFields ==
  \A m \in ContentModules :
    /\ {"kind", "title", "description", "order"} \subseteq Fields(m)
    /\ Fields(m) \subseteq {"kind", "title", "description", "order", "icon", "href"}
    /\ ("icon" \in Fields(m)) <=> (m # HomeId)
    /\ "href" \notin Fields(m)

C1_Witness ==
  /\ dom[HomeId].status = "ok"
  /\ dom[SchemaCacheId].status = "ok"
  /\ HomeId \in ContentModules
  /\ "icon" \notin Fields(HomeId)
  /\ "icon" \in Fields(SchemaCacheId)

\* C2: over all metadata records, href is present exactly when the kind is
\* 'external'; 'content' and 'group' records carry no href, and the href of
\* every 'external' record is a non-empty absolute https URL.
C2_HrefIffExternal ==
  \A m \in Modules :
    /\ ("href" \in Fields(m)) <=> (metadata[m].kind = "external")
    /\ metadata[m].kind \in {"content", "group"} => "href" \notin Fields(m)
    /\ metadata[m].kind = "external" =>
         /\ Len(metadata[m].href) > 0
         /\ IsAbsoluteHttps(metadata[m].href)

C2_Witness ==
  /\ SomePageRendered
  /\ ExternalModules = CommunityLinks
  /\ \A m \in CommunityLinks : "href" \in Fields(m)
  /\ metadata[CommunityId].kind = "group"
  /\ "href" \notin Fields(CommunityId)

\* ---------------------------------------------------------------------------
\* Properties of rendering.
\* ---------------------------------------------------------------------------

AllowedHosts == {"github.com", "discord.com", "www.fab.com"}

HomeRenders == {r \in renders : r.page = HomeId /\ r.out.status = "ok"}

\* C3: every outbound link the site exposes (the external-link records and the
\* three HomePage buttons) carries, verbatim, a statically declared href (a
\* metadata href, or headerLinks[k].href of the site configuration HomePage was
\* given); with the repository's site configuration every such URL points to
\* github.com, discord.com or www.fab.com; the other pages render no link.
C3_LinksAreDeclaredHrefs ==
  /\ \A m \in ExternalModules : HostOf(metadata[m].href) \in AllowedHosts
  /\ \A r \in HomeRenders :
       /\ Len(r.out.buttons) = Len(HomeLinkKeys)
       /\ \A i \in DOMAIN r.out.buttons :
            /\ r.out.buttons[i].href = r.input.headerLinks[HomeLinkKeys[i]].href
            /\ r.input = siteConfig => HostOf(r.out.buttons[i].href) \in AllowedHosts
  /\ \A r \in renders : r.page # HomeId => r.out.buttons = <<>>

C3_Witness ==
  /\ \E r \in HomeRenders : r.input = siteConfig
  /\ \E r \in HomeRenders : r.input = SiteOtherLinks
  /\ \E r \in renders : r.page # HomeId

\* C4: rendering is effect-free. Whatever pages are rendered, in whatever order,
\* no step changes a metadata record or the exported site configuration, and a
\* render changes what is on screen for one page only, not the mounted site.
C4_RenderingEffectFree ==
  [][/\ metadata' = metadata
     /\ siteConfig' = siteConfig
     /\ dom' # dom =>
          /\ site' = site
          /\ Cardinality({p \in Pages : dom'[p] # dom[p]}) = 1]_vars

C4_Witness ==
  /\ \A p \in Pages : dom[p].status # "none"
  /\ Cardinality(renders) > Cardinality(Pages)
  /\ metadata = LoadedMetadata
  /\ siteConfig = SiteConfigDefault

\* The three hrefs HomePage reads from a site configuration.
HeaderHrefs(s) == [k \in DOMAIN s.headerLinks |-> s.headerLinks[k].href]

\* C5: rendering is deterministic. DefiningSchemaPage, SchemaCachePage and
\* SerializationPage read no input and every call of one of them yields the same
\* output; any two calls of HomePage under site configurations with the same
\* header-link hrefs yield the same output, whatever was rendered in between.
C5_Deterministic ==
  \A a, b \in renders :
    /\ a.page # HomeId => a.input = NoInput
    /\ (a.page = b.page /\ a.page # HomeId) => a.out = b.out
    /\ (a.page = HomeId /\ b.page = HomeId /\ HeaderHrefs(a.input) = HeaderHrefs(b.input))
         => a.out = b.out

C5_Witness ==
  /\ \E a, b \in renders :
       /\ a.page = HomeId /\ b.page = HomeId
       /\ a.input # b.input
       /\ HeaderHrefs(a.input) = HeaderHrefs(b.input)
       /\ a.out = b.out
  /\ \E a, b \in renders : a.page = HomeId /\ b.page = HomeId /\ a.out # b.out
  /\ \A p \in Pages : dom[p].status # "none"

\* ---------------------------------------------------------------------------
\* Properties of the content the pages render.
\* ---------------------------------------------------------------------------

OkRenders == {r \in renders : r.out.status = "ok"}

\* The names of the properties a page's examples declare or dereference.
PropertyNames(out) ==
  UNION {{pr.name : pr \in Range(out.examples[i].props)} \cup Range(out.examples[i].members)
         : i \in DOMAIN out.examples}

\* The keys of the JSON a page's examples show or pass to Get/Set...Field.
JsonKeys(out) == UNION {Range(out.examples[i].json) : i \in DOMAIN out.examples}

NamedProperties ==
  <<"CharacterName", "MemberNames", "EquippedWeapon", "CharacterClass", "SecondaryClass",
    "Level", "Health", "Name", "Damage">>

NamedKeys ==
  <<"character_name", "member_names", "equipped_weapon", "character_class", "secondary_class",
    "level", "health", "name", "damage">>

\* The JSON Schema keyword the 'Enumeration Properties' example quotes from the
\* generated schema ("enum": ["Warrior", "Mage", "Rogue"]). It names a part of
\* the schema, not a member of the object.
SchemaKeywords == {"enum"}

\* The letters of a name from index i on, lower-cased, without separators.
RECURSIVE LettersFrom(_, _)
LettersFrom(s, i) ==
  IF i > Len(s) THEN ""
  ELSE LET c == CharAt(s, i)
       IN (IF c = "_" THEN "" ELSE ToLower(c)) \o LettersFrom(s, i + 1)

\* A JSON key stands for a property when the two spell the same words, whatever
\* their case and separators.
StandsFor(k, n) == LettersFrom(k, 1) = LettersFrom(n, 1)

\* The properties of a page that key k stands for.
PropertiesOf(k, out) == {n \in PropertyNames(out) : StandsFor(k, n)}

\* C6: the documented naming rule holds for every example of the site. The rule
\* maps the nine named properties to the nine named keys, and each JSON key an
\* example shows or uses in a Get/Set field call is exactly the snake_case
\* conversion of the property of its page it stands for; such a key is one of the
\* nine. The only key shown that stands for no property is the schema keyword
\* "enum".
C6_PropertyKeysAreSnakeCase ==
  /\ \A i \in DOMAIN NamedProperties : ToSnake(NamedProperties[i]) = NamedKeys[i]
  /\ \A r \in OkRenders :
       \A k \in JsonKeys(r.out) :
         LET ns == PropertiesOf(k, r.out)
         IN  /\ \A n \in ns : k = ToSnake(n)
             /\ ns # {} => k \in Range(NamedKeys)
             /\ ns = {} => k \in SchemaKeywords

\* Every page is rendered, the nine named keys and the schema keyword are all
\* on screen, and each named key stands for a property of the page showing it.
C6_Witness ==
  /\ \A p \in Pages : dom[p].status = "ok"
  /\ UNION {JsonKeys(r.out) : r \in OkRenders} = Range(NamedKeys) \cup SchemaKeywords
  /\ PropertiesOf("equipped_weapon", dom[SerializationId].out) = {"EquippedWeapon"}
  /\ PropertiesOf("character_class", dom[DefiningSchemaId].out) = {"CharacterClass"}
  /\ PropertiesOf("character_name", dom[SchemaCacheId].out) = {"CharacterName"}
  /\ "enum" \in JsonKeys(dom[DefiningSchemaId].out)
  /\ "enum" \in JsonKeys(dom[DefiningSchemaAltId].out)
  /\ PropertiesOf("enum", dom[DefiningSchemaId].out) = {}

\* The JsonSchema_* metadata keys the code examples of a page use.
ExampleKeys(out) == UNION {Range(out.examples[i].meta) : i \in DOMAIN out.examples}

\* The keys of the rows of a page's Metadata Reference table.
TableKeys(out) == {out.table[i].key : i \in DOMAIN out.table}

DefiningRenders == {r \in OkRenders : r.page \in {DefiningSchemaId, DefiningSchemaAltId}}

\* C7: the Metadata Reference table of the Defining Schemas page lists all
\* metadata options: every JsonSchema_* key of a code example of the page has
\* a row in the table, and the key of every row appears in an example.
C7_TableListsAllKeys ==
  \A r \in DefiningRenders :
    /\ ExampleKeys(r.out) \subseteq TableKeys(r.out)
    /\ TableKeys(r.out) \subseteq ExampleKeys(r.out)

CompleteExampleTitle == "Comprehensive Schema Definition Example"

\* The metadata keys behind the options C8 names: pattern, format, minimum,
\* maximum, exclusive minimum, exclusive maximum, multipleOf, minItems,
\* maxItems, optional, exclusion from schema.
OptionKeys ==
  {"JsonSchema_Pattern", "JsonSchema_Format", "JsonSchema_Minimum", "JsonSchema_Maximum",
   "JsonSchema_ExclusiveMinimum", "JsonSchema_ExclusiveMaximum", "JsonSchema_MultipleOf",
   "JsonSchema_MinItems", "JsonSchema_MaxItems", "JsonSchema_Optional",
   "JsonSchema_ExcludeFromSchema"}

\* An example uses an enumeration when a property of it has a UENUM type the
\* page declares, and a nested object when a property of it is a pointer to an
\* IJsonSchema class the page declares.
UsesEnumeration(out, e) ==
  \E pr \in Range(e.props) : \E i \in DOMAIN out.examples :
    pr.type \in Range(out.examples[i].enums)

UsesNestedObject(out, e) ==
  \E pr \in Range(e.props) : \E i \in DOMAIN out.examples :
    \E c \in Range(out.examples[i].classes) : pr.type = c \o "*"

\* C8: the 'Complete Example' of the Defining Schemas page combines all schema
\* definition techniques: it uses every option the page documents (the eleven
\* metadata keys, an enumeration and a nested IJsonSchema object).
C8_CompleteExampleUsesEveryOption ==
  \A r \in DefiningRenders :
    \E i \in DOMAIN r.out.examples :
      LET e == r.out.examples[i]
      IN  /\ e.title = CompleteExampleTitle
          /\ OptionKeys \subseteq Range(e.meta)
          /\ UsesEnumeration(r.out, e)
          /\ UsesNestedObject(r.out, e)

\* ---------------------------------------------------------------------------
\* Properties of the navigation order.
\* ---------------------------------------------------------------------------

\* The navigation entries of a set of modules: one per (order, title).
Entries(ms) == {[order |-> metadata[m].order, title |-> metadata[m].title] : m \in ms}

\* The entries in ascending order; entries of equal order come in any order.
RECURSIVE SortByOrder(_)
SortByOrder(es) ==
  IF es = {} THEN <<>>
  ELSE LET first == CHOOSE e \in es : \A f \in es : e.order <= f.order
       IN  <<first>> \o SortByOrder(es \ {first})

\* C9: two top-level content pages with different titles have different order
\* values, so ascending order gives one navigation sequence: the home page (1),
\* Defining Schemas (3), Schema Cache (4), JSON Serialization (5).
C9_ContentOrderUnambiguous ==
  /\ \A a, b \in ContentModules :
       metadata[a].title # metadata[b].title => metadata[a].order # metadata[b].order
  /\ SortByOrder(Entries(ContentModules)) =
       << [order |-> 1, title |-> "JSON Object & Schema Utility Plugin"],
          [order |-> 3, title |-> "Defining Schemas"],
          [order |-> 4, title |-> "Schema Cache"],
          [order |-> 5, title |-> "JSON Serialization"] >>

C9_Witness ==
  /\ SomePageRendered
  /\ ContentModules = Pages
  /\ Cardinality(Entries(ContentModules)) < Cardinality(ContentModules)
  /\ \E a, b \in ContentModules : metadata[a].title # metadata[b].title

\* C10: the three external links of the Community group have pairwise distinct
\* order values (Discord 1, Report a Bug 2, Feature Request 3), and the order
\* of the group (400) exceeds the order of every top-level content page.
C10_CommunityOrder ==
  /\ \A a, b \in CommunityLinks : a # b => metadata[a].order # metadata[b].order
  /\ metadata[DiscordId].order = 1
  /\ metadata[ReportBugId].order = 2
  /\ metadata[FeatureRequestId].order = 3
  /\ metadata[CommunityId].order = 400
  /\ \A m \in ContentModules : metadata[CommunityId].order > metadata[m].order
  /\ LET nav == SortByOrder(Entries(ContentModules \cup {CommunityId}))
     IN  nav[Len(nav)].title = metadata[CommunityId].title

C10_Witness ==
  /\ SomePageRendered
  /\ ExternalModules = CommunityLinks
  /\ metadata[CommunityId].kind = "group"
  /\ Cardinality(ContentModules) > 1

\* ---------------------------------------------------------------------------
\* Properties of the site configuration and of the home page's links.
\* ---------------------------------------------------------------------------

\* C11: every headerLinks key HomePage dereferences ('fab', 'github',
\* 'discord') is defined in the repository's site configuration with a
\* non-empty href, so no render of HomePage under that configuration reads a
\* property of an undefined entry (none ends in a TypeError).
C11_HeaderLinksDefined ==
  /\ \A i \in DOMAIN HomeLinkKeys :
       /\ HomeLinkKeys[i] \in DOMAIN siteConfig.headerLinks
       /\ "href" \in DOMAIN siteConfig.headerLinks[HomeLinkKeys[i]]
       /\ Len(siteConfig.headerLinks[HomeLinkKeys[i]].href) > 0
  /\ \A r \in renders :
       (r.page = HomeId /\ r.input = siteConfig) =>
         /\ r.out.status = "ok"
         /\ \A i \in DOMAIN r.out.buttons : Len(r.out.buttons[i].href) > 0

C11_Witness ==
  /\ \E r \in renders : r.page = HomeId /\ r.input = siteConfig /\ r.out.status = "ok"
  /\ \E r \in renders : r.page = HomeId /\ r.input = SiteNoFab /\ r.out.status = "TypeError"
  /\ Range(HomeLinkKeys) = DOMAIN siteConfig.headerLinks

\* C12: the GitHub fields of the site configuration agree: links.github,
\* github.baseUrl and headerLinks.github.href are the same URL, and that URL is
\* 'https://github.com/' + github.owner + '/' + github.repo.
C12_GithubFieldsAgree ==
  /\ siteConfig.links.github = siteConfig.github.baseUrl
  /\ siteConfig.github.baseUrl = siteConfig.headerLinks.github.href
  /\ siteConfig.github.baseUrl =
       "https://github.com/" \o siteConfig.github.owner \o "/" \o siteConfig.github.repo

\* The URL of the new-issue form of a repository for an issue template.
NewIssueUrl(baseUrl, template) == baseUrl \o "/issues/new?template=" \o template \o ".md"

\* C13: the community link records agree with the site configuration: the
\* hrefs of 'Report a Bug' and 'Feature Request' are github.baseUrl followed by
\* '/issues/new?template=<template>.md' (templates bug_report and
\* feature_request), and the href of the Community 'Discord' link equals
\* headerLinks.discord.href.
C13_CommunityLinksAgree ==
  /\ metadata[ReportBugId].href = NewIssueUrl(siteConfig.github.baseUrl, "bug_report")
  /\ metadata[FeatureRequestId].href = NewIssueUrl(siteConfig.github.baseUrl, "feature_request")
  /\ metadata[DiscordId].href = siteConfig.headerLinks.discord.href

C13_Witness ==
  /\ \E r \in HomeRenders :
       /\ r.input = siteConfig
       /\ \E i \in DOMAIN r.out.buttons : r.out.buttons[i].href = metadata[DiscordId].href
  /\ \A m \in CommunityLinks : StartsWith(metadata[m].href, Scheme)
  /\ metadata[ReportBugId].href # metadata[FeatureRequestId].href

\* C14: every anchor HomePage renders that opens in a new browsing context
\* (target "_blank") carries rel "noopener noreferrer"; this covers all three
\* outbound buttons (FAB, GitHub, Discord), each of which opens that way.
C14_BlankTargetsHaveRel ==
  \A r \in HomeRenders :
    /\ {r.out.buttons[i].label : i \in DOMAIN r.out.buttons} =
         {"Buy on FAB", "View on GitHub", "Join Discord"}
    /\ \A i \in DOMAIN r.out.buttons :
         /\ r.out.buttons[i].target = "_blank"
         /\ r.out.buttons[i].target = "_blank" => r.out.buttons[i].rel = "noopener noreferrer"

C14_Witness ==
  /\ dom[HomeId].status = "ok"
  /\ Len(dom[HomeId].out.buttons) = Len(HomeLinkKeys)
  /\ \A i \in DOMAIN dom[HomeId].out.buttons : dom[HomeId].out.buttons[i].target = "_blank"
  /\ Cardinality(HomeRenders) > 1

====
